---- MODULE Spec2Model ----
(***************************************************************************)
(* Model of src/fix_geojson.py: the coordinate-depth normaliser            *)
(* (fix_geojson_structure and its inner depth), the validity repairer      *)
(* (fix_polygon_validity), the runs of repair_geojson_no_gpd and the form   *)
(* that schedules them (start, inside create_gui) on the Tk event loop.    *)
(*                                                                         *)
(* JSON values are tagged records of one shape, so that a number, a string *)
(* and a list can sit in the same set: k is the Python type, n the number, *)
(* items the elements of a list.                                           *)
(***************************************************************************)
EXTENDS Integers, Sequences, FiniteSets, TLC

VARIABLES
    \* ---- the form (create_gui) and its event loop ----
    progress,       \* current value of progress_var
    clicks,         \* how often the start button has been clicked
    pending,        \* runs scheduled with root.after and not yet started
    stack,          \* the modal dialogs waiting for an answer, innermost last
    last,           \* summary of the run that returned most recently
    disk,           \* condition of the output file on disk
    \* ---- the run of repair_geojson_no_gpd that is executing ----
    pc,             \* position in the function body, "idle" when none runs
    file,           \* the input file as read: its condition and the document
    idx,            \* number of features the for loop has taken so far
    fixed_features, \* the list of kept features (line 78)
    total,          \* line 79
    done,           \* line 80
    progressLog,    \* every value this run passed to progress_var.set
    outcomes,       \* what the geometry engine did for each feature taken
    outOpens,       \* how often this run opened the output for writing
    outFile,        \* what this run put into the output file
    abortedAt,      \* the step whose exception reached line 110, or "none"
    \* ---- one call of fix_geojson_structure ----
    nPhase,         \* "in" before the call, "out" after it
    nInput,         \* the geometry dict passed in
    nResult,        \* the dict returned
    nDepth          \* d, the depth measured at line 43

vars == <<progress, clicks, pending, stack, last, disk,
          pc, file, idx, fixed_features, total, done, progressLog,
          outcomes, outOpens, outFile, abortedAt,
          nPhase, nInput, nResult, nDepth>>

guiVars == <<progress, clicks, pending, stack, last, disk>>

\* The locals of the executing run and what it has done so far.
runVars == <<pc, file, idx, fixed_features, total, done, progressLog,
             outcomes, outOpens, outFile, abortedAt>>

normVars == <<nPhase, nInput, nResult, nDepth>>

\* ------------------------------------------------------------------ bounds

\* Longest feature list of an input document.
MaxFeatures == 2

\* How often the start button is clicked.
MaxClicks == 2

\* Deepest list nesting of the coordinates drawn for the normaliser.
MaxDepth == 6

\* ------------------------------------------------------------- JSON values

Num(x) == [k |-> "num", n |-> x, items |-> <<>>]

Str == [k |-> "str", n |-> 0, items |-> <<>>]

Null == [k |-> "null", n |-> 0, items |-> <<>>]

List(s) == [k |-> "list", n |-> 0, items |-> s]

\* What a nesting can bottom out in: a number, a string such as
\* "not-a-list", or an empty list.
Leaves == {Num(1), Str, List(<<>>)}

\* The nestings with exactly lv list levels above a leaf along the first
\* elements; a second element shows that only the first one is measured.
RECURSIVE Level(_)
Level(lv) ==
    IF lv = 0 THEN Leaves
    ELSE {List(<<v>>) : v \in Level(lv - 1)}
         \cup {List(<<v, Num(2)>>) : v \in Level(lv - 1)}

CoordValues == UNION {Level(lv) : lv \in 0..MaxDepth}

\* ---------------------------------------------------------- geometry dicts

\* kind: "absent" (the feature has no geometry key), "null" (None),
\* "empty" ({}), "dict" (a non-empty dict), "mapped" (what mapping() made).
\* extra stands for every key other than type and coordinates.
Geom(kind, hasType, type, hasCoords, coords, buffered) ==
    [kind |-> kind, hasType |-> hasType, type |-> type,
     hasCoords |-> hasCoords, coordinates |-> coords,
     extra |-> "bbox", buffered |-> buffered]

AbsentGeom == Geom("absent", FALSE, "", FALSE, Null, FALSE)

NullGeom == Geom("null", FALSE, "", FALSE, Null, FALSE)

EmptyGeom == Geom("empty", FALSE, "", FALSE, Null, FALSE)

Dict(type, coords) == Geom("dict", TRUE, type, TRUE, coords, FALSE)

GeomTypes == {"Polygon", "MultiPolygon", "Point"}

\* The arguments drawn for fix_geojson_structure.
GeomInputs ==
    {Dict(t, c) : t \in GeomTypes, c \in CoordValues}
    \cup {Geom("dict", FALSE, "", TRUE, c, FALSE) : c \in Level(2)}
    \cup {Geom("dict", TRUE, t, FALSE, Null, FALSE) : t \in GeomTypes}
    \cup {NullGeom, EmptyGeom}

\* ------------------------------------------------ fix_geojson_structure

\* A depth that does not count the innermost list (the position).
RECURSIVE depthSkipsPosition(_)
depthSkipsPosition(lst) ==
    IF lst.k = "list" /\ Len(lst.items) > 0 /\ lst.items[1].k = "list"
    THEN 1 + depthSkipsPosition(lst.items[1])
    ELSE 0

\* def depth(lst): 1 + depth(lst[0]) for a non-empty list, else 0.
RECURSIVE depth(_)
depth(lst) ==
    IF lst.k = "list" /\ Len(lst.items) > 0
    THEN 1 + depth(lst.items[1])
    ELSE 0

\* not geom_dict: None and {} are falsy.
Falsy(g) == g.kind \in {"absent", "null", "empty"}

\* The normaliser without the wrap of a too-shallow nesting.
NormaliseNoWrap(g) ==
    IF Falsy(g) \/ ~g.hasType \/ ~g.hasCoords THEN g
    ELSE LET d == depth(g.coordinates)
         IN  IF g.type = "Polygon" /\ d > 3
             THEN [g EXCEPT !.coordinates = g.coordinates.items[1]]
             ELSE IF g.type = "MultiPolygon" /\ d > 4
             THEN [g EXCEPT !.coordinates = g.coordinates.items[1]]
             ELSE g

\* The normaliser with the unwrap test off by one (d >= target).
NormaliseUnwrapEarly(g) ==
    IF Falsy(g) \/ ~g.hasType \/ ~g.hasCoords THEN g
    ELSE LET d == depth(g.coordinates)
         IN  IF g.type = "Polygon"
             THEN IF d = 2 THEN [g EXCEPT !.coordinates = List(<<g.coordinates>>)]
                  ELSE IF d >= 3 THEN [g EXCEPT !.coordinates = g.coordinates.items[1]]
                  ELSE g
             ELSE IF g.type = "MultiPolygon"
             THEN IF d = 3 THEN [g EXCEPT !.coordinates = List(<<g.coordinates>>)]
                  ELSE IF d >= 4 THEN [g EXCEPT !.coordinates = g.coordinates.items[1]]
                  ELSE g
             ELSE g

\* def fix_geojson_structure(geom_dict), lines 27-61.
fix_geojson_structure(g) ==
    IF Falsy(g) \/ ~g.hasType \/ ~g.hasCoords THEN g
    ELSE LET gtype == g.type
             coords == g.coordinates
             d == depth(coords)
         IN  IF gtype = "Polygon"
             THEN IF d = 2 THEN [g EXCEPT !.coordinates = List(<<coords>>)]
                  ELSE IF d > 3 THEN [g EXCEPT !.coordinates = coords.items[1]]
                  ELSE g
             ELSE IF gtype = "MultiPolygon"
             THEN IF d = 3 THEN [g EXCEPT !.coordinates = List(<<coords>>)]
                  ELSE IF d > 4 THEN [g EXCEPT !.coordinates = coords.items[1]]
                  ELSE g
             ELSE g

\* ------------------------------------------------------ the geometry engine

\* What shapely does with one feature's geometry; the engine is not part of
\* the program, so it is an input of the run, one of:
\*   parse_fail   shape() raises
\*   valid        is_valid, not empty
\*   valid_empty  is_valid, is_empty (e.g. "coordinates": [])
\*   buf_valid    not valid; buffer(0) is valid, not empty
\*   buf_empty    not valid; buffer(0) is valid and empty
\*   buf_invalid  not valid; buffer(0) is not valid either
\*   buf_topo     not valid; buffer(0) raises TopologicalError
\*   buf_raise    not valid; buffer(0) raises another exception
EngineOutcomes ==
    {"parse_fail", "valid", "valid_empty", "buf_valid", "buf_empty",
     "buf_invalid", "buf_topo", "buf_raise"}

\* The outcomes possible for dict g: a geometry parsed from coordinates that
\* hold no position is empty, one parsed from positions is not.
EngineCan(g) ==
    IF g.coordinates = List(<<>>) THEN {"parse_fail", "valid_empty"}
    ELSE EngineOutcomes \ {"valid_empty"}

\* A parsed geometry: the dict it came from, the engine's behaviour for it,
\* and whether it is the result of buffer(0).
GeomObj(src, o, buffered) == [src |-> src, o |-> o, buffered |-> buffered]

\* geom.is_valid
is_valid(geom) ==
    IF geom.buffered THEN geom.o \in {"buf_valid", "buf_empty"}
    ELSE geom.o \in {"valid", "valid_empty"}

\* geom.is_empty
is_empty(geom) ==
    IF geom.buffered THEN geom.o = "buf_empty" ELSE geom.o = "valid_empty"

\* The result of a call: tag "geom" (a geometry object, in obj), "none"
\* (None) or "raise" (an exception left the function).
Returned(geom) == [tag |-> "geom", obj |-> geom]

ReturnedNone(geom) == [tag |-> "none", obj |-> geom]

Raised(geom) == [tag |-> "raise", obj |-> geom]

\* def fix_polygon_validity(geom), lines 12-24.
fix_polygon_validity(geom) ==
    IF is_valid(geom) THEN Returned(geom)
    ELSE IF geom.o = "buf_topo" THEN ReturnedNone(geom)
    ELSE IF geom.o = "buf_raise" THEN Raised(geom)
    ELSE LET fixed == GeomObj(geom.src, geom.o, TRUE)
         IN  IF is_valid(fixed) THEN Returned(fixed) ELSE ReturnedNone(geom)

\* if geom_fixed: None is falsy, and so is an empty geometry
\* (BaseGeometry.__bool__ is "not is_empty").
Truthy(r) == r.tag = "geom" /\ ~is_empty(r.obj)

\* mapping(geom_fixed): the dict the engine serialises the geometry to.
mapping(geom) ==
    Geom("mapped", TRUE, geom.src.type, TRUE, geom.src.coordinates, geom.buffered)

\* ------------------------------------------------------------ the input

Position == List(<<Num(1), Num(2)>>)

\* A single ring given directly as the coordinates of a Polygon (depth 2).
Ring == List(<<Position, Position>>)

\* The geometries a feature of the input document can carry.
FeatureGeoms ==
    {AbsentGeom, NullGeom, EmptyGeom, Dict("Polygon", Ring),
     Dict("Polygon", List(<<>>)), Dict("Point", Position)}

\* A feature: id stands for every field other than geometry.
Feature(i, g) == [id |-> i, geometry |-> g]

FeatureLists ==
    UNION {{[i \in 1..n |-> Feature(i, gs[i])] : gs \in [1..n -> FeatureGeoms]}
           : n \in 0..MaxFeatures}

\* status: "unread" (no run has opened it yet), "missing" (open fails),
\* "malformed" (json.load fails), "nonobject" (valid JSON that is no
\* object), "ok".  hasFeatures: whether the document has a "features" key.
File(status, hasFeatures, fs) ==
    [status |-> status, hasFeatures |-> hasFeatures, features |-> fs]

NoFile == File("unread", FALSE, <<>>)

\* What a run can find at input_path when it opens it.
FileInputs ==
    {File("ok", TRUE, fs) : fs \in FeatureLists}
    \cup {File("ok", FALSE, <<>>), File("missing", FALSE, <<>>),
          File("malformed", FALSE, <<>>), File("nonobject", FALSE, <<>>)}

\* max(1, total)
Max1(n) == IF n < 1 THEN 1 ELSE n

\* 30 + int(60 * done / max(1, total)), line 99
LoopProgress(d, t) == 30 + ((60 * d) \div Max1(t))

\* ------------------------------------------------- summaries and dialogs

\* What is kept of a handler once it waits in a modal dialog, where it
\* reads its locals no more: kind "run" (repair_geojson_no_gpd) or "start";
\* dlg the dialog ("info", "err", "warn"); info and err its calls of
\* showinfo and showerror; opens its opens of the output; e100 whether it
\* passed 100 to progress_var.set; abortedAt as the variable.
Summary(kind, dlg, info, err, opens, e100, at) ==
    [kind |-> kind, dlg |-> dlg, info |-> info, err |-> err,
     opens |-> opens, e100 |-> e100, abortedAt |-> at]

NoCall == Summary("none", "none", 0, 0, 0, FALSE, "none")

\* Whether the executing run has passed 100 to progress_var.set.
Emitted100 == \E i \in 1..Len(progressLog) : progressLog[i] = 100

\* ---------------------------------------------------------------- Init

\* No run is executing: the locals of a run do not exist.
RunIdle ==
    /\ pc = "idle"
    /\ file = NoFile
    /\ idx = 0
    /\ fixed_features = <<>>
    /\ total = 0
    /\ done = 0
    /\ progressLog = <<>>
    /\ outcomes = <<>>
    /\ outOpens = 0
    /\ outFile = [status |-> "none", features |-> <<>>]
    /\ abortedAt = "none"

\* The executing run hands control to the event loop: its locals are read
\* no more.
LeaveRun ==
    /\ pc' = "idle"
    /\ file' = NoFile
    /\ idx' = 0
    /\ fixed_features' = <<>>
    /\ total' = 0
    /\ done' = 0
    /\ progressLog' = <<>>
    /\ outcomes' = <<>>
    /\ outOpens' = 0
    /\ outFile' = [status |-> "none", features |-> <<>>]
    /\ abortedAt' = "none"

\* create_gui up to root.mainloop(): progress_var = tk.IntVar() is 0.
GuiInit ==
    /\ progress = 0
    /\ clicks = 0
    /\ pending = 0
    /\ stack = <<>>
    /\ last = NoCall
    /\ disk = "none"

NormIdle ==
    /\ nPhase = "idle"
    /\ nInput = NullGeom
    /\ nResult = NullGeom
    /\ nDepth = 0

Init == GuiInit /\ RunIdle /\ NormIdle

\* ------------------------------------------------- the form: start()

\* def start(), lines 175-187, on a click of the start button.  The button
\* takes clicks while no modal dialog is open.  pathsOk: the input path
\* exists and the output path is not empty.
start ==
    /\ pc = "idle"
    /\ stack = <<>>
    /\ clicks < MaxClicks
    /\ clicks' = clicks + 1
    /\ \E pathsOk \in BOOLEAN :
         IF pathsOk
         THEN \* lines 186-187: set(0), root.after(100, ...)
              /\ progress' = 0
              /\ pending' = pending + 1
              /\ UNCHANGED stack
         ELSE \* lines 180, 183: showwarning waits in the event loop
              /\ stack' = Append(stack,
                     Summary("start", "warn", 0, 0, 0, FALSE, "none"))
              /\ UNCHANGED <<progress, pending>>
    /\ UNCHANGED <<last, disk>>
    /\ UNCHANGED runVars

\* The event loop (root.mainloop, or the loop of a waiting dialog) starts a
\* scheduled run: repair_geojson_no_gpd is entered.
Fire ==
    /\ pc = "idle"
    /\ pending > 0
    /\ pending' = pending - 1
    /\ pc' = "entry"
    /\ UNCHANGED <<progress, clicks, stack, last, disk>>
    /\ UNCHANGED <<file, idx, fixed_features, total, done, progressLog,
                   outcomes, outOpens, outFile, abortedAt>>

\* ---------------------------------------------- repair_geojson_no_gpd

\* progress_var.set(v)
SetProgress(v) ==
    /\ progress' = v
    /\ progressLog' = Append(progressLog, v)

\* line 71
Enter ==
    /\ pc = "entry"
    /\ SetProgress(10)
    /\ pc' = "load"
    /\ UNCHANGED <<file, idx, fixed_features, total, done, outcomes, outOpens,
                   outFile, abortedAt>>
    /\ UNCHANGED <<clicks, pending, stack, last, disk>>

\* A load whose failure does not stop the run.
LoadIgnoringFailure ==
    /\ pc = "load"
    /\ \E f \in FileInputs :
         /\ file' = f
         /\ SetProgress(30)
         /\ total' = Len(f.features)
         /\ pc' = IF Len(f.features) = 0 THEN "write" ELSE "pass"
    /\ UNCHANGED <<idx, fixed_features, done, outcomes, outOpens,
                   outFile, abortedAt>>
    /\ UNCHANGED <<clicks, pending, stack, last, disk>>

\* lines 73-80: open and json.load, set(30), then total and done.  A JSON
\* document that is no object fails at data.get, after set(30).
Load ==
    /\ pc = "load"
    /\ \E f \in FileInputs :
         /\ file' = f
         /\ IF f.status \in {"missing", "malformed"}
            THEN /\ pc' = "except"
                 /\ abortedAt' = "load"
                 /\ UNCHANGED <<total, progress, progressLog>>
            ELSE IF f.status = "nonobject"
            THEN /\ SetProgress(30)
                 /\ pc' = "except"
                 /\ abortedAt' = "pass"
                 /\ UNCHANGED total
            ELSE /\ SetProgress(30)
                 /\ total' = Len(f.features)
                 /\ pc' = IF Len(f.features) = 0 THEN "write" ELSE "pass"
                 /\ UNCHANGED abortedAt
    /\ UNCHANGED <<idx, fixed_features, done, outcomes, outOpens, outFile>>
    /\ UNCHANGED <<clicks, pending, stack, last, disk>>

\* Where the loop goes after taking one more feature.
AfterFeature == IF idx + 1 = Len(file.features) THEN "write" ELSE "pass"

\* lines 82-99, one iteration of the for loop on feature idx + 1, with o the
\* engine's behaviour for its geometry ("none" when the engine is not asked).
FeatureStep(o) ==
    LET feat == file.features[idx + 1]
        geom_dict == feat.geometry
    IN  /\ idx' = idx + 1
        /\ outcomes' = Append(outcomes, o)
        /\ IF Falsy(geom_dict)
           THEN \* line 85 is false: nothing is appended; lines 98-99 run
                /\ o = "none"
                /\ done' = done + 1
                /\ SetProgress(LoopProgress(done + 1, total))
                /\ pc' = AfterFeature
                /\ UNCHANGED <<fixed_features, abortedAt>>
           ELSE LET fixedDict == fix_geojson_structure(geom_dict)
                    r == fix_polygon_validity(GeomObj(fixedDict, o, FALSE))
                IN  /\ o \in EngineCan(fixedDict)
                    /\ IF o = "parse_fail"
                       THEN \* line 91: continue, past lines 98-99
                            /\ pc' = AfterFeature
                            /\ UNCHANGED <<fixed_features, done, progress,
                                           progressLog, abortedAt>>
                       ELSE IF r.tag = "raise"
                       THEN \* the exception reaches line 110
                            /\ pc' = "except"
                            /\ abortedAt' = "feature"
                            /\ UNCHANGED <<fixed_features, done, progress,
                                           progressLog>>
                       ELSE /\ fixed_features' =
                                 IF Truthy(r)
                                 THEN Append(fixed_features,
                                             [feat EXCEPT !.geometry = mapping(r.obj)])
                                 ELSE fixed_features
                            /\ done' = done + 1
                            /\ SetProgress(LoopProgress(done + 1, total))
                            /\ pc' = AfterFeature
                            /\ UNCHANGED abortedAt

NextFeature ==
    /\ pc = "pass"
    /\ idx < Len(file.features)
    /\ \E o \in EngineOutcomes \cup {"none"} : FeatureStep(o)
    /\ UNCHANGED <<file, total, outOpens, outFile>>
    /\ UNCHANGED <<clicks, pending, stack, last, disk>>

\* lines 102-107: replace the features, open the output, json.dump, set(100).
\* w is how the write ends: "open_fails", "dump_fails" or "ok".
WriteStep(w) ==
    /\ IF w = "open_fails"
       THEN /\ pc' = "except"
            /\ abortedAt' = "write"
            /\ UNCHANGED <<outOpens, outFile, disk, progress, progressLog>>
       ELSE IF w = "dump_fails"
       THEN /\ outOpens' = outOpens + 1
            /\ outFile' = [status |-> "partial", features |-> <<>>]
            /\ disk' = "partial"
            /\ pc' = "except"
            /\ abortedAt' = "write"
            /\ UNCHANGED <<progress, progressLog>>
       ELSE /\ outOpens' = outOpens + 1
            /\ outFile' = [status |-> "written", features |-> fixed_features]
            /\ disk' = "written"
            /\ SetProgress(100)
            /\ pc' = "notify"
            /\ UNCHANGED abortedAt

Write ==
    /\ pc = "write"
    /\ \E w \in {"open_fails", "dump_fails", "ok"} : WriteStep(w)
    /\ UNCHANGED <<file, idx, fixed_features, total, done, outcomes>>
    /\ UNCHANGED <<clicks, pending, stack, last>>

\* line 108: messagebox.showinfo is called.  The dialog is modal: the call
\* waits in the event loop until it is answered.
Notify ==
    /\ pc = "notify"
    /\ stack' = Append(stack,
           Summary("run", "info", 1, 0, outOpens, Emitted100, abortedAt))
    /\ LeaveRun
    /\ UNCHANGED <<progress, clicks, pending, last, disk>>

\* lines 110-111: messagebox.showerror is called, and waits like showinfo.
Except ==
    /\ pc = "except"
    /\ stack' = Append(stack,
           Summary("run", "err", 0, 1, outOpens, Emitted100, abortedAt))
    /\ LeaveRun
    /\ UNCHANGED <<progress, clicks, pending, last, disk>>

\* The innermost dialog is answered and its call returns; the handler that
\* made it returns to the event loop (line 108 or 111 is the last statement
\* of the run, lines 181 and 184 return from start).
DialogReturn ==
    /\ pc = "idle"
    /\ stack # <<>>
    /\ stack' = SubSeq(stack, 1, Len(stack) - 1)
    /\ last' = IF stack[Len(stack)].kind = "run" THEN stack[Len(stack)] ELSE last
    /\ UNCHANGED <<progress, clicks, pending, disk>>
    /\ UNCHANGED runVars

\* The innermost dialog is a showinfo and its call raises: line 108 is
\* inside the try block, so line 110 catches the exception and line 111
\* calls showerror.
NotifyRaises ==
    /\ pc = "idle"
    /\ stack # <<>>
    /\ stack[Len(stack)].dlg = "info"
    /\ stack' = [stack EXCEPT ![Len(stack)] =
                    [@ EXCEPT !.dlg = "err", !.err = @ + 1,
                              !.abortedAt = "notify"]]
    /\ UNCHANGED <<progress, clicks, pending, last, disk>>
    /\ UNCHANGED runVars

Next ==
    \/ (start /\ UNCHANGED normVars)
    \/ (Fire /\ UNCHANGED normVars)
    \/ (Enter /\ UNCHANGED normVars)
    \/ (Load /\ UNCHANGED normVars)
    \/ (NextFeature /\ UNCHANGED normVars)
    \/ (Write /\ UNCHANGED normVars)
    \/ (Notify /\ UNCHANGED normVars)
    \/ (Except /\ UNCHANGED normVars)
    \/ (DialogReturn /\ UNCHANGED normVars)
    \/ (NotifyRaises /\ UNCHANGED normVars)

Spec == Init /\ [][Next]_vars

\* ------------------------------------- one call of fix_geojson_structure

NormInit ==
    /\ GuiInit
    /\ RunIdle
    /\ nPhase = "in"
    /\ nInput \in GeomInputs
    /\ nResult = NullGeom
    /\ nDepth = 0

\* The call: d is depth(coords) of line 43 (0 when the function returns at
\* line 32), nResult the dict returned.
Normalise ==
    /\ nPhase = "in"
    /\ nPhase' = "out"
    /\ nDepth' = IF Falsy(nInput) \/ ~nInput.hasType \/ ~nInput.hasCoords
                 THEN 0 ELSE depth(nInput.coordinates)
    /\ nResult' = fix_geojson_structure(nInput)
    /\ UNCHANGED nInput
    /\ UNCHANGED runVars
    /\ UNCHANGED guiVars

NormNext == Normalise

SpecNorm == NormInit /\ [][NormNext]_vars

\* ================================================================ claims

\* json.dump of the executing run has completed; outFile.features is the
\* features list it wrote.  (The run is then at line 108.)
Written == outFile.status = "written"

InputIdx == 1..Len(file.features)

OutputIdx == 1..Len(outFile.features)

\* The runs that wait in a dialog or have returned last.
Summaries ==
    {stack[i] : i \in 1..Len(stack)} \cup {last}

\* What fix_polygon_validity returned for input feature i, whose geometry
\* the engine parsed with behaviour o.
RepairOf(i, o) ==
    fix_polygon_validity(
        GeomObj(fix_geojson_structure(file.features[i].geometry), o, FALSE))

\* C1: when the run reaches the write, every input feature whose geometry
\* is absent or null is in the written features list, unchanged.
C1_NullGeometryKept ==
    Written =>
        \A i \in InputIdx :
            file.features[i].geometry.kind \in {"absent", "null"}
            => \E j \in OutputIdx : outFile.features[j] = file.features[i]

\* C2: every feature whose geometry parsed and for which
\* fix_polygon_validity returned a geometry object (empty or not) is in the
\* output with its geometry replaced by the serialised repaired geometry and
\* its other fields untouched; and the output is a subsequence of the input.
C2_RepairedKeptInOrder ==
    Written =>
        /\ \A i \in InputIdx :
               (/\ ~Falsy(file.features[i].geometry)
                /\ outcomes[i] # "parse_fail"
                /\ RepairOf(i, outcomes[i]).tag = "geom")
               => \E j \in OutputIdx :
                      outFile.features[j] =
                          [file.features[i] EXCEPT
                              !.geometry = mapping(RepairOf(i, outcomes[i]).obj)]
        /\ \A j \in OutputIdx : outFile.features[j].id \in InputIdx
        /\ \A j, k \in OutputIdx :
               j < k => outFile.features[j].id < outFile.features[k].id

\* The part of C2 that the code does satisfy: the same, for the geometry
\* objects that are not empty.
C2_NonEmptyKeptInOrder ==
    Written =>
        /\ \A i \in InputIdx :
               (/\ ~Falsy(file.features[i].geometry)
                /\ outcomes[i] # "parse_fail"
                /\ RepairOf(i, outcomes[i]).tag = "geom"
                /\ ~is_empty(RepairOf(i, outcomes[i]).obj))
               => \E j \in OutputIdx :
                      outFile.features[j] =
                          [file.features[i] EXCEPT
                              !.geometry = mapping(RepairOf(i, outcomes[i]).obj)]
        /\ \A j \in OutputIdx : outFile.features[j].id \in InputIdx
        /\ \A j, k \in OutputIdx :
               j < k => outFile.features[j].id < outFile.features[k].id

\* The per-feature failures C3 names: the parse fails, buffer(0) raises
\* (whatever it raises), or the buffered geometry is still invalid.
FeatureFailures == {"parse_fail", "buf_topo", "buf_raise", "buf_invalid"}

\* The failed features of the executing run are not among the kept ones.
FailedFeaturesDropped ==
    \A i \in 1..Len(outcomes) :
        outcomes[i] \in FeatureFailures
        => \A j \in 1..Len(fixed_features) : fixed_features[j].id # i

\* A run that has gone on to its outcome call without a failure of its load, its write or its
\* notification has written the output and reported success, not an error.
ReturnedRunSucceeded(s) ==
    (s.kind = "run" /\ s.abortedAt \notin {"load", "pass", "write", "notify"})
    => (s.info = 1 /\ s.err = 0 /\ s.opens = 1)

\* C3: a per-feature failure never aborts the run: no exception of the
\* per-feature step reaches the error handler, the failed feature alone is
\* dropped, every feature is taken before the write, and a run whose load,
\* write and notification do not fail reports success, not an error.
C3_FeatureFailureNeverAborts ==
    /\ abortedAt # "feature"
    /\ FailedFeaturesDropped
    /\ pc \in {"write", "notify"} => idx = Len(file.features)
    /\ \A s \in Summaries : ReturnedRunSucceeded(s)

\* The part of C3 that the code does satisfy: the same, for the runs in
\* which buffer(0) raises nothing but TopologicalError.
C3_TopologicalFailureNeverAborts ==
    /\ (\A i \in 1..Len(outcomes) : outcomes[i] # "buf_raise")
       => abortedAt # "feature"
    /\ FailedFeaturesDropped
    /\ pc \in {"write", "notify"} => idx = Len(file.features)
    /\ \A s \in Summaries : s.abortedAt # "feature" => ReturnedRunSucceeded(s)

\* C6: after the i-th feature of the pass has been handled, whatever branch
\* it took, the progress sink holds 30 + floor(60*i/n) with
\* n = max(1, number of features); so the pass ends at 90 on a non-empty
\* collection.
C6_ProgressAfterEachFeature ==
    /\ (pc \in {"pass", "write"} /\ idx >= 1)
       => progress = 30 + ((60 * idx) \div Len(file.features))
    /\ (pc = "write" /\ Len(file.features) >= 1) => progress = 90

\* The part of C6 that the code does satisfy: the formula counts the
\* features that reached line 98, not the features seen.
C6_ProgressCountsDone ==
    (pc \in {"pass", "write"} /\ done >= 1)
    => progress = 30 + ((60 * done) \div Len(file.features))

\* The values the executing run has passed to the progress sink are in
\* 0..100 and never decrease, and the sink holds the last of them.
RunProgressMonotone ==
    /\ \A i \in 1..Len(progressLog) : progressLog[i] \in 0..100
    /\ \A i, j \in 1..Len(progressLog) :
           i < j => progressLog[i] <= progressLog[j]
    /\ progressLog # <<>> => progress = progressLog[Len(progressLog)]

\* C7: every progress value of a run is an integer in 0..100, the values
\* never decrease, the last one is 100 exactly when the run reports success,
\* and a run that reports an error never emitted 100.
C7_ProgressMonotoneAndFinal ==
    /\ RunProgressMonotone
    /\ \A s \in Summaries :
           s.kind = "run" =>
               /\ s.e100 <=> (s.info = 1 /\ s.err = 0)
               /\ s.err >= 1 => ~s.e100

\* The part of C7 that the code does satisfy: range and monotonicity, and
\* 100 exactly when the run has written the output in full.
C7_ProgressMonotone ==
    /\ RunProgressMonotone
    /\ pc # "idle" => (Emitted100 <=> Written)
    /\ \A s \in Summaries :
           s.kind = "run" =>
               (s.e100 <=> (s.opens = 1 /\ s.abortedAt \in {"none", "notify"}))

\* C8: a run that has returned has made exactly one terminal outcome call:
\* one showinfo or one showerror, never both and never none.
C8_ExactlyOneOutcome ==
    last.kind = "run" => last.info + last.err = 1

\* C9: a failed load ends in the error outcome with the output never
\* opened; a run opens the output at most once, only after the load and the
\* whole per-feature pass, and before any success notification.
C9_WriteOnceAfterPass ==
    /\ file.status \in {"missing", "malformed"}
       => /\ outOpens = 0
          /\ outFile.status = "none"
          /\ pc = "except"
    /\ outOpens <= 1
    /\ outOpens = 1
       => /\ file.status = "ok"
          /\ idx = Len(file.features)
          /\ Len(outcomes) = Len(file.features)
    /\ outFile.status # "none" => outOpens = 1
    /\ pc = "notify" => Written /\ outOpens = 1
    /\ \A s \in Summaries :
           s.kind = "run" =>
               /\ s.opens <= 1
               /\ s.abortedAt = "load"
                  => (s.opens = 0 /\ s.info = 0 /\ s.err = 1)
               /\ s.opens = 1 => s.abortedAt \in {"none", "write", "notify"}
               /\ s.info >= 1 => s.opens = 1

\* A run whose load failed has returned after the error outcome, the output
\* never opened.
C9_Witness ==
    /\ last.kind = "run"
    /\ last.abortedAt = "load"
    /\ last.err = 1
    /\ last.info = 0
    /\ last.opens = 0

\* The call of fix_geojson_structure has returned, and its argument had
\* both keys, so that line 43 measured the depth.
Measured ==
    /\ nPhase = "out"
    /\ ~Falsy(nInput)
    /\ nInput.hasType
    /\ nInput.hasCoords

\* C4 as stated: whatever the depth of the input, a Polygon comes out with
\* depth exactly 3 and a MultiPolygon with depth exactly 4.
C4_DepthAlwaysTarget ==
    Measured =>
        /\ nInput.type = "Polygon" => depth(nResult.coordinates) = 3
        /\ nInput.type = "MultiPolygon" => depth(nResult.coordinates) = 4

\* C4, amended: a Polygon of input depth 2, 3 or 4 comes out with depth
\* exactly 3 and a MultiPolygon of input depth 3, 4 or 5 with depth exactly
\* 4; a shallower input keeps its depth and a deeper one loses one level.
C4_DepthOneLevelCorrected ==
    Measured =>
        /\ (nInput.type = "Polygon" /\ nDepth \in 2..4)
           => depth(nResult.coordinates) = 3
        /\ (nInput.type = "Polygon" /\ nDepth < 2)
           => depth(nResult.coordinates) = nDepth
        /\ (nInput.type = "Polygon" /\ nDepth > 4)
           => depth(nResult.coordinates) = nDepth - 1
        /\ (nInput.type = "MultiPolygon" /\ nDepth \in 3..5)
           => depth(nResult.coordinates) = 4
        /\ (nInput.type = "MultiPolygon" /\ nDepth < 3)
           => depth(nResult.coordinates) = nDepth
        /\ (nInput.type = "MultiPolygon" /\ nDepth > 5)
           => depth(nResult.coordinates) = nDepth - 1

\* A single ring given as the coordinates of a Polygon has been wrapped.
C4_Witness ==
    /\ Measured
    /\ nInput.type = "Polygon"
    /\ nInput.coordinates = List(<<Position>>)
    /\ nResult.coordinates = List(<<List(<<Position>>)>>)
    /\ depth(nResult.coordinates) = 3

\* v inside lv more lists: Nest(2, v) is [[v]].
RECURSIVE Nest(_, _)
Nest(lv, v) == IF lv = 0 THEN v ELSE List(<<Nest(lv - 1, v)>>)

\* C5 as stated: depth([]) = 0, depth([[1,2]]) = 1, depth([[[1,2]]]) = 2.
C5_DepthExcludesPosition ==
    Measured =>
        /\ nInput.coordinates = List(<<>>) => nDepth = 0
        /\ nInput.coordinates = Nest(1, Position) => nDepth = 1
        /\ nInput.coordinates = Nest(2, Position) => nDepth = 2

\* C5, amended: depth([]) = 0, depth([[1,2]]) = 2, depth([[[1,2]]]) = 3:
\* for lv lists around one position the depth is lv + 1, the position
\* [1,2] being a list itself and counted.
C5_DepthCountsPosition ==
    Measured =>
        /\ nInput.coordinates = List(<<>>) => nDepth = 0
        /\ nInput.coordinates = Nest(1, Position) => nDepth = 2
        /\ nInput.coordinates = Nest(2, Position) => nDepth = 3
        /\ \A lv \in 0..MaxDepth :
               nInput.coordinates = Nest(lv, Position) => nDepth = lv + 1

\* depth([[1,2]]) has been measured as 2.
C5_Witness ==
    /\ Measured
    /\ nInput.coordinates = Nest(1, Position)
    /\ nDepth = 2

\* The depth of C10's reference: 0 for a non-list or an empty list, 1 + the
\* depth of the first element otherwise.
RECURSIVE RefDepth(_)
RefDepth(v) ==
    CASE v.k # "list" -> 0
      [] v.k = "list" /\ v.items = <<>> -> 0
      [] OTHER -> 1 + RefDepth(Head(v.items))

\* The coordinates of C10's reference for a dict with both keys.
RefCoords(type, c) ==
    CASE type = "Polygon" /\ RefDepth(c) = 2 -> List(<<c>>)
      [] type = "Polygon" /\ RefDepth(c) > 3 -> Head(c.items)
      [] type = "MultiPolygon" /\ RefDepth(c) = 3 -> List(<<c>>)
      [] type = "MultiPolygon" /\ RefDepth(c) > 4 -> Head(c.items)
      [] OTHER -> c

\* C10: fix_geojson_structure equals the reference: a null or empty dict
\* and a dict missing type or coordinates come back unchanged; otherwise
\* the coordinates are the reference's, and the type and the other keys are
\* those of the argument.
C10_NormaliserEqualsReference ==
    nPhase = "out" =>
        IF nInput.kind \in {"null", "empty"} \/ ~nInput.hasType \/ ~nInput.hasCoords
        THEN nResult = nInput
        ELSE /\ nResult.coordinates = RefCoords(nInput.type, nInput.coordinates)
             /\ nResult.kind = nInput.kind
             /\ nResult.hasType /\ nResult.type = nInput.type
             /\ nResult.hasCoords
             /\ nResult.extra = nInput.extra
             /\ nResult.buffered = nInput.buffered

\* A MultiPolygon of depth 5 has lost its outermost level.
C10_Witness ==
    /\ Measured
    /\ nInput.type = "MultiPolygon"
    /\ nDepth = 5
    /\ nResult.coordinates = Head(nInput.coordinates.items)
    /\ nResult.coordinates # nInput.coordinates

====
